---- MODULE Spec2Model ----
(***************************************************************************)
(* Model of src/example/buggy.py: calculate_average(numbers) and main().   *)
(*                                                                         *)
(* Python numbers are modelled exactly.  A finite number is a record       *)
(*   [k |-> "int" | "float", c |-> "fin", s |-> 1 | -1, m |-> digits, e]   *)
(* whose value is s * m * Base^e, where m is a numeral in base             *)
(* Base = 2^15, most significant digit first, without leading or trailing  *)
(* zero digits (zero is the empty numeral with e = 0 and s = 1; the sign   *)
(* of a float zero is not kept, Python's == does not see it).  An int has  *)
(* unbounded precision; a float is an IEEE-754 binary64 value: at most 53  *)
(* significant bits, a multiple of 2^-1074, magnitude below 2^1024, or one *)
(* of inf, -inf, nan (field c).                                            *)
(***************************************************************************)
EXTENDS Integers, Sequences, FiniteSets, TLC

\* ------------------------------------------------------------------------
\* IEEE-754 binary64 parameters of CPython's float (the type of total / n)
\* ------------------------------------------------------------------------
DBL_MANT_DIG == 53
DBL_MAX_EXP == 1024
DBL_MIN_QEXP == -1074

\* ------------------------------------------------------------------------
\* Numerals in base 2^15, most significant digit first
\* ------------------------------------------------------------------------
Base == 2 ^ 15

Max(a, b) == IF a >= b THEN a ELSE b

Min(a, b) == IF a <= b THEN a ELSE b

\* number of bits of a machine integer 0 <= n < 2^30
BitLen(n) == IF n = 0 THEN 0 ELSE CHOOSE b \in 1..30 : 2 ^ (b - 1) <= n /\ n < 2 ^ b

DigitBits == BitLen(Base) - 1

Zeros(n) == [j \in 1..n |-> 0]

\* the numeral without its leading zero digits
StripLead(b) ==
  IF \A j \in 1..Len(b) : b[j] = 0 THEN <<>>
  ELSE LET f == CHOOSE j \in 1..Len(b) :
                  b[j] # 0 /\ \A h \in 1..(j - 1) : b[h] = 0
       IN  SubSeq(b, f, Len(b))

\* number of trailing zero digits of a numeral
TrailZeros(b) ==
  IF \A j \in 1..Len(b) : b[j] = 0 THEN 0
  ELSE LET f == CHOOSE j \in 1..Len(b) :
                  b[j] # 0 /\ \A h \in (j + 1)..Len(b) : b[h] = 0
       IN  Len(b) - f

\* the numeral of a machine integer n >= 0
RECURSIVE NatDigits(_)
NatDigits(n) == IF n = 0 THEN <<>> ELSE Append(NatDigits(n \div Base), n % Base)

\* number of bits of a numeral without leading zeros
NumBits(m) == IF m = <<>> THEN 0 ELSE DigitBits * (Len(m) - 1) + BitLen(m[1])

PadTo(b, n) == Zeros(n - Len(b)) \o b

\* digits 1..j of a + b, on numerals of one length, with carry c into digit j
RECURSIVE AddUpTo(_, _, _, _)
AddUpTo(a, b, j, c) ==
  IF j = 0 THEN (IF c = 1 THEN <<1>> ELSE <<>>)
  ELSE LET t == a[j] + b[j] + c
       IN  IF t >= Base THEN Append(AddUpTo(a, b, j - 1, 1), t - Base)
           ELSE Append(AddUpTo(a, b, j - 1, 0), t)

AddMag(a, b) ==
  LET n == Max(Len(a), Len(b))
  IN  StripLead(AddUpTo(PadTo(a, n), PadTo(b, n), n, 0))

\* digits 1..j of a - b (a >= b), on numerals of one length, with borrow c
RECURSIVE SubUpTo(_, _, _, _)
SubUpTo(a, b, j, c) ==
  IF j = 0 THEN <<>>
  ELSE LET t == a[j] - b[j] - c
       IN  IF t < 0 THEN Append(SubUpTo(a, b, j - 1, 1), t + Base)
           ELSE Append(SubUpTo(a, b, j - 1, 0), t)

SubMag(a, b) ==
  LET n == Max(Len(a), Len(b))
  IN  StripLead(SubUpTo(PadTo(a, n), PadTo(b, n), n, 0))

\* a < b on numerals without leading zeros
LessMag(a, b) ==
  \/ Len(a) < Len(b)
  \/ /\ Len(a) = Len(b)
     /\ \E j \in 1..Len(a) :
          /\ a[j] < b[j]
          /\ \A h \in 1..(j - 1) : a[h] = b[h]

\* long division of the first j digits of a numeral by a machine integer
\* 0 < n < Base: the quotient digits and the remainder
DivStep(p, aj, n) ==
  [q |-> Append(p.q, (Base * p.r + aj) \div n), r |-> (Base * p.r + aj) % n]

RECURSIVE DivUpTo(_, _, _)
DivUpTo(a, n, j) ==
  IF j = 0 THEN [q |-> <<>>, r |-> 0]
  ELSE DivStep(DivUpTo(a, n, j - 1), a[j], n)

Quotient(d) == [q |-> StripLead(d.q), r |-> d.r]

DivMag(a, n) == Quotient(DivUpTo(a, n, Len(a)))

\* digits 1..j of a numeral times a machine integer 0 <= n < Base, carry c
RECURSIVE MulUpTo(_, _, _, _)
MulUpTo(a, n, j, c) ==
  IF j = 0 THEN (IF c = 0 THEN <<>> ELSE <<c>>)
  ELSE LET t == a[j] * n + c
       IN  IF t >= Base THEN Append(MulUpTo(a, n, j - 1, t \div Base), t % Base)
           ELSE Append(MulUpTo(a, n, j - 1, 0), t)

MulMag(a, n) == StripLead(MulUpTo(a, n, Len(a), 0))

\* ------------------------------------------------------------------------
\* Exact dyadic values s * m * Base^e
\* ------------------------------------------------------------------------
DyZero == [s |-> 1, m |-> <<>>, e |-> 0]

\* the value s * a * Base^e for a numeral a, in canonical form
Canonical(s, a, e) ==
  IF a = <<>> THEN DyZero
  ELSE [s |-> s, m |-> SubSeq(a, 1, Len(a) - TrailZeros(a)),
        e |-> e + TrailZeros(a)]

\* the value s * m * 2^b for a numeral m and a bit exponent b
Dy(s, m, b) ==
  Canonical(s, MulMag(m, 2 ^ (b % DigitBits)),
            (b - (b % DigitBits)) \div DigitBits)

DyOf(x) == [s |-> x.s, m |-> x.m, e |-> x.e]

\* xs * a * Base^lo + ys * b * Base^lo
AddAligned(xs, a, ys, b, lo) ==
  Dy(IF xs = ys \/ ~LessMag(a, b) THEN xs ELSE ys,
     IF xs = ys THEN AddMag(a, b)
     ELSE IF LessMag(a, b) THEN SubMag(b, a)
     ELSE SubMag(a, b),
     DigitBits * lo)

AddAt(x, y, lo) ==
  AddAligned(x.s, x.m \o Zeros(x.e - lo), y.s, y.m \o Zeros(y.e - lo), lo)

DyAdd(x, y) ==
  IF y.m = <<>> THEN x
  ELSE IF x.m = <<>> THEN y
  ELSE AddAt(x, y, Min(x.e, y.e))

\* position of the leading bit: the value lies in [2^(t-1), 2^t)
TopBit(x) == NumBits(x.m) + DigitBits * x.e

\* magnitude at least 2^p
DyAtLeastPow2(x, p) == x.m # <<>> /\ TopBit(x) > p

\* ------------------------------------------------------------------------
\* Rounding to binary64: to nearest, ties to even
\* ------------------------------------------------------------------------
Rounded(c, s, m, e) == [c |-> c, s |-> s, m |-> m, e |-> e]

RoundedZero == Rounded("fin", 1, <<>>, 0)

\* d2: the numeral kept and, as remainder, the round bit; st: whether any bit
\* below the round bit is set; qe: the bit exponent of the last place
RoundUp(s, d2, st, qe) ==
  Dy(s,
     IF d2.r = 1 /\ (st \/ (d2.q # <<>> /\ d2.q[Len(d2.q)] % 2 = 1))
     THEN AddMag(d2.q, <<1>>)
     ELSE d2.q,
     qe)

\* d1: the numeral down to the round bit and, as remainder, the bits cut
\* below it in its last digit; low: whether a digit cut below is not zero
RoundBit(s, d1, low, qe) == RoundUp(s, DivMag(d1.q, 2), d1.r # 0 \/ low, qe)

\* drop d > 0 low bits of x, of which w whole digits lie below the round bit
DropDigits(x, d, w, qe) ==
  IF w >= Len(x.m) THEN DyZero
  ELSE RoundBit(x.s,
                DivMag(SubSeq(x.m, 1, Len(x.m) - w), 2 ^ ((d - 1) % DigitBits)),
                \E j \in (Len(x.m) - w + 1)..Len(x.m) : x.m[j] # 0,
                qe)

DropBits(x, d, qe) ==
  IF d <= 0 THEN x ELSE DropDigits(x, d, (d - 1) \div DigitBits, qe)

\* c = "inf" when the rounded magnitude reaches 2^DBL_MAX_EXP
InRange(s, r) ==
  IF DyAtLeastPow2(r, DBL_MAX_EXP) THEN Rounded("inf", s, <<>>, 0)
  ELSE Rounded("fin", r.s, r.m, r.e)

RoundTo(x, qe) == InRange(x.s, DropBits(x, qe - DigitBits * x.e, qe))

\* the nearest binary64 value of x # 0 has its last place at bit exponent
\* TopBit(x) - 53, at -1074 in the subnormal range
RoundDy(x) ==
  IF x.m = <<>> THEN RoundedZero
  ELSE RoundTo(x, Max(TopBit(x) - DBL_MANT_DIG, DBL_MIN_QEXP))

\* the exact quotient x / n (0 < n < Base), rounded once to binary64: the
\* numerator is scaled by k digits (cut by -k digits when k < 0) so that the
\* quotient numeral has at least 55 bits, and what is lost below it (the
\* remainder, the digits cut) is kept as a sticky bit
Sticky(dm, lost) ==
  AddMag(MulMag(dm.q, 2), IF dm.r = 0 /\ ~lost THEN <<>> ELSE <<1>>)

DivScaled(x, n, k) ==
  RoundDy(Dy(x.s,
             Sticky(DivMag(IF k >= 0 THEN x.m \o Zeros(k)
                           ELSE SubSeq(x.m, 1, Len(x.m) + k), n),
                    \E j \in (Len(x.m) + k + 1)..Len(x.m) : x.m[j] # 0),
             DigitBits * (x.e - k) - 1))

DivRound(x, n) ==
  IF x.m = <<>> THEN RoundedZero
  ELSE DivScaled(x, n,
         (DBL_MANT_DIG + 2 + BitLen(n) - NumBits(x.m) + DigitBits - 1)
           \div DigitBits)

\* ------------------------------------------------------------------------
\* Python values and the two operators calculate_average applies to them
\* ------------------------------------------------------------------------
PyInt(d) == [k |-> "int", c |-> "fin", s |-> d.s, m |-> d.m, e |-> d.e]

PyFloat(r) == [k |-> "float", c |-> r.c, s |-> r.s, m |-> r.m, e |-> r.e]

PyNaN == [k |-> "float", c |-> "nan", s |-> 1, m |-> <<>>, e |-> 0]

None == [k |-> "None", c |-> "fin", s |-> 1, m |-> <<>>, e |-> 0]

Returns(v) == [err |-> "none", v |-> v]

Raises(x) == [err |-> x, v |-> None]

\* int -> float conversion of a mixed operation (PyLong_AsDouble)
Converted(r) ==
  IF r.c = "inf" THEN Raises("OverflowError") ELSE Returns(PyFloat(r))

AsFloat(a) ==
  IF a.k = "float" THEN Returns(a) ELSE Converted(RoundDy(DyOf(a)))

\* y is below a quarter of the last place of x: x + y rounds to x
Negligible(y, x) ==
  y.m = <<>> \/ (x.m # <<>> /\ TopBit(y) + DBL_MANT_DIG + 2 < TopBit(x))

\* IEEE-754 addition of two floats
FloatAdd(x, y) ==
  IF x.c = "nan" \/ y.c = "nan" THEN PyNaN
  ELSE IF x.c = "inf" /\ y.c = "inf" THEN (IF x.s = y.s THEN x ELSE PyNaN)
  ELSE IF x.c = "inf" THEN x
  ELSE IF y.c = "inf" THEN y
  ELSE IF Negligible(y, x) THEN x
  ELSE IF Negligible(x, y) THEN y
  ELSE PyFloat(RoundDy(DyAdd(DyOf(x), DyOf(y))))

\* the float sum of two converted operands; a failed conversion propagates
AddConverted(fa, fb) ==
  IF fa.err # "none" THEN fa
  ELSE IF fb.err # "none" THEN fb
  ELSE Returns(FloatAdd(fa.v, fb.v))

\* a + b, the operation of `total += num`
PyAdd(a, b) ==
  IF a.k = "int" /\ b.k = "int" THEN Returns(PyInt(DyAdd(DyOf(a), DyOf(b))))
  ELSE AddConverted(AsFloat(a), AsFloat(b))

\* int / int raises when the quotient is out of the float range, float / int
\* gives inf
Divided(k, r) ==
  IF k = "int" THEN Converted(r) ELSE Returns(PyFloat(r))

\* PyTrueDiv with a guard that answers 0 for the empty sequence
PyTrueDiv_Guarded(a, n) ==
  IF n = 0 THEN Returns(PyInt(DyZero))
  ELSE IF a.c # "fin" THEN Returns(a)
  ELSE Divided(a.k, DivRound(DyOf(a), n))

\* PyTrueDiv with the quotient cut to an int: int(total / len(numbers))
Truncated(o) ==
  IF o.err # "none" \/ o.v.c # "fin" \/ o.v.e >= 0 THEN o
  ELSE Returns(PyInt(Dy(o.v.s, SubSeq(o.v.m, 1, Len(o.v.m) + o.v.e), 0)))

PyTrueDiv_Truncating(a, n) ==
  IF n = 0 THEN Raises("ZeroDivisionError")
  ELSE IF a.c # "fin" THEN Returns(a)
  ELSE Truncated(Divided(a.k, DivRound(DyOf(a), n)))

\* a / n for the int n = len(numbers), the operation of `total / len(numbers)`
PyTrueDiv(a, n) ==
  IF n = 0 THEN Raises("ZeroDivisionError")
  ELSE IF a.c # "fin" THEN Returns(a)
  ELSE Divided(a.k, DivRound(DyOf(a), n))

\* literals: the int n, the int 2^p, the float s * n * 2^b, and the float
\* nearest to the decimal fraction n / d (how CPython reads 0.1)
I(n) == PyInt(Dy(IF n < 0 THEN -1 ELSE 1, NatDigits(IF n < 0 THEN -n ELSE n), 0))

IPow2(p) == PyInt(Dy(1, <<1>>, p))

F(s, n, b) == PyFloat(RoundDy(Dy(s, NatDigits(n), b)))

FDec(n, d) == PyFloat(DivRound(DyOf(I(n)), d))

\* ------------------------------------------------------------------------
\* Inputs
\* ------------------------------------------------------------------------
\* longest sequence of the exhaustive part of the inputs
MaxLen == 3

\* the elements of the exhaustive part: -3, 1, 2 and 0.1
Vals == {I(-3), I(1), I(2), FDec(1, 10)}

SeqsUpTo(n) == UNION {[1..l -> Vals] : l \in 0..n}

\* 2^53 + 1, the first int that is not a float
IntAbove53 == PyInt(DyAdd(DyOf(IPow2(DBL_MANT_DIG)), DyOf(I(1))))

\* further inputs: the examples of the documentation, seven ints of sum 29,
\* ints at the edge of the float range, floats whose sum overflows
Particular ==
  { <<I(0)>>, <<I(5)>>, <<I(2), I(4), I(6)>>,
    <<I(29), I(0), I(0), I(0), I(0), I(0), I(0)>>,
    <<IntAbove53>>,
    <<IPow2(DBL_MAX_EXP)>>,
    <<IPow2(DBL_MAX_EXP), I(0)>>,
    <<IPow2(DBL_MAX_EXP), FDec(1, 10)>>,
    <<F(1, 1, DBL_MAX_EXP - 1), F(1, 1, DBL_MAX_EXP - 1)>> }

Inputs == SeqsUpTo(MaxLen) \cup Particular

\* ------------------------------------------------------------------------
\* The program
\* ------------------------------------------------------------------------
VARIABLES
  entry,     \* "main": the script is run; "call": calculate_average is called
  pc,        \* the line about to execute, "ret" (callee left), "exit"
  data,      \* main's local `data`
  numbers,   \* calculate_average's parameter
  idx,       \* number of elements the for loop has taken from `numbers`
  num,       \* the loop variable
  total,     \* the accumulator
  outcome,   \* how the call ended: Returns(v) or Raises(e); Pending: not yet
  raisedAt,  \* the line of calculate_average that raised, 0 if none
  result,    \* main's local `result`
  stdout,    \* the lines printed
  run        \* the process: "Running", "Completed" or "Crashed"

vars == <<entry, pc, data, numbers, idx, num, total, outcome, raisedAt,
          result, stdout, run>>

Pending == [err |-> "pending", v |-> None]

\* InitialTotal with the seed 1
InitialTotal_One == I(1)

\* line 3: the seed of the accumulator
InitialTotal == I(0)

\* NextElement off by one: the first element is taken twice, the last never
NextElement_Repeat(S, i) == S[IF i = 0 THEN 1 ELSE i]

\* line 4: the element the for loop takes after it has taken i elements
NextElement(S, i) == S[i + 1]

\* Divisor with a count that is one too large, and one too small
Divisor_PlusOne(S) == Len(S) + 1

Divisor_MinusOne(S) == Len(S) - 1

\* line 6: the divisor
Divisor(S) == Len(S)

\* line 11: the line printed
Rendered(v) == [text |-> "Average: ", value |-> v]

Init ==
  /\ entry \in {"main", "call"}
  /\ pc = IF entry = "main" THEN "L9" ELSE "L3"
  /\ numbers \in IF entry = "main" THEN {<<>>} ELSE Inputs
  /\ data = <<>>
  /\ idx = 0
  /\ num = None
  /\ total = None
  /\ outcome = Pending
  /\ raisedAt = 0
  /\ result = None
  /\ stdout = <<>>
  /\ run = "Running"

\* line 9: data = []
MainData ==
  /\ entry = "main" /\ pc = "L9"
  /\ data' = <<>>
  /\ pc' = "L10"
  /\ UNCHANGED <<entry, numbers, idx, num, total, outcome, raisedAt, result,
                 stdout, run>>

\* line 10: the call calculate_average(data)
MainCall ==
  /\ entry = "main" /\ pc = "L10"
  /\ numbers' = data
  /\ pc' = "L3"
  /\ UNCHANGED <<entry, data, idx, num, total, outcome, raisedAt, result,
                 stdout, run>>

\* line 3: total = 0
AvgInit ==
  /\ pc = "L3"
  /\ total' = InitialTotal
  /\ pc' = "L4"
  /\ UNCHANGED <<entry, data, numbers, idx, num, outcome, raisedAt, result,
                 stdout, run>>

\* AvgFor that consumes the list it iterates (numbers.pop(0))
AvgFor_Pop ==
  /\ pc = "L4" /\ numbers # <<>>
  /\ num' = Head(numbers)
  /\ numbers' = Tail(numbers)
  /\ idx' = idx + 1
  /\ pc' = "L5"
  /\ UNCHANGED <<entry, data, total, outcome, raisedAt, result, stdout, run>>

\* line 4: for num in numbers, an element is left
AvgFor ==
  /\ pc = "L4" /\ idx < Len(numbers)
  /\ num' = NextElement(numbers, idx)
  /\ idx' = idx + 1
  /\ pc' = "L5"
  /\ UNCHANGED <<entry, data, numbers, total, outcome, raisedAt, result,
                 stdout, run>>

\* AvgForEnd that leaves the loop one element early
AvgForEnd_Early ==
  /\ pc = "L4" /\ idx >= Len(numbers) - 1
  /\ pc' = "L6"
  /\ UNCHANGED <<entry, data, numbers, idx, num, total, outcome, raisedAt,
                 result, stdout, run>>

\* line 4: for num in numbers, the sequence is exhausted
AvgForEnd ==
  /\ pc = "L4" /\ idx >= Len(numbers)
  /\ pc' = "L6"
  /\ UNCHANGED <<entry, data, numbers, idx, num, total, outcome, raisedAt,
                 result, stdout, run>>

\* line 5: total += num
\* r is the outcome of the addition: its value is bound to total, its
\* exception leaves the function
Assign(r) ==
  IF r.err = "none"
  THEN /\ total' = r.v
       /\ pc' = "L4"
       /\ UNCHANGED <<outcome, raisedAt>>
  ELSE /\ outcome' = r
       /\ raisedAt' = 5
       /\ pc' = "ret"
       /\ UNCHANGED total

AvgAdd ==
  /\ pc = "L5"
  /\ Assign(PyAdd(total, num))
  /\ UNCHANGED <<entry, data, numbers, idx, num, result, stdout, run>>

\* line 6: return total / len(numbers)
AvgReturn ==
  /\ pc = "L6"
  /\ outcome' = PyTrueDiv(total, Divisor(numbers))
  /\ raisedAt' = IF outcome'.err = "none" THEN 0 ELSE 6
  /\ pc' = "ret"
  /\ UNCHANGED <<entry, data, numbers, idx, num, total, result, stdout, run>>

\* MainFinish with the call wrapped in try/except: the failure is swallowed
\* and a line is printed all the same
MainFinish_Swallow ==
  /\ entry = "main" /\ pc = "ret"
  /\ result' = IF outcome.err = "none" THEN outcome.v ELSE I(0)
  /\ stdout' = Append(stdout, Rendered(result'))
  /\ run' = "Completed"
  /\ pc' = "exit"
  /\ UNCHANGED <<entry, data, numbers, idx, num, total, outcome, raisedAt>>

\* MainFinish that calls again when the call has failed
MainFinish_Retry ==
  /\ entry = "main" /\ pc = "ret"
  /\ IF outcome.err = "none"
     THEN /\ result' = outcome.v
          /\ stdout' = Append(stdout, Rendered(outcome.v))
          /\ run' = "Completed"
          /\ pc' = "exit"
     ELSE /\ pc' = "L10"
          /\ UNCHANGED <<result, stdout, run>>
  /\ UNCHANGED <<entry, data, numbers, idx, num, total, outcome, raisedAt>>

\* lines 10-11 and 14: back in main.  An exception of the callee is handled
\* nowhere and ends the process with a traceback on stderr; otherwise the
\* value is bound to `result` and one line is printed.
MainFinish ==
  /\ entry = "main" /\ pc = "ret"
  /\ IF outcome.err = "none"
     THEN /\ result' = outcome.v
          /\ stdout' = Append(stdout, Rendered(outcome.v))
          /\ run' = "Completed"
     ELSE /\ run' = "Crashed"
          /\ UNCHANGED <<result, stdout>>
  /\ pc' = "exit"
  /\ UNCHANGED <<entry, data, numbers, idx, num, total, outcome, raisedAt>>

Next ==
  \/ MainData
  \/ MainCall
  \/ AvgInit
  \/ AvgFor
  \/ AvgForEnd
  \/ AvgAdd
  \/ AvgReturn
  \/ MainFinish

Spec == Init /\ [][Next]_vars

\* the script is one thread that the interpreter runs until it ends
FairSpec == Spec /\ WF_vars(entry = "main" /\ Next)

\* calculate_average as a function of its argument: the outcome of the loop
\* after k iterations, and of the call
AddTo(p, x) == IF p.err # "none" THEN p ELSE PyAdd(p.v, x)

RECURSIVE Accumulate(_, _)
Accumulate(S, k) ==
  IF k = 0 THEN Returns(InitialTotal)
  ELSE AddTo(Accumulate(S, k - 1), NextElement(S, k - 1))

DivideBy(t, n) == IF t.err # "none" THEN t ELSE PyTrueDiv(t.v, n)

calculate_average(S) == DivideBy(Accumulate(S, Len(S)), Divisor(S))

\* ------------------------------------------------------------------------
\* What the properties speak of
\* ------------------------------------------------------------------------
\* sum(S[1..k]) and sum(S) / len(S), evaluated from left to right in Python's
\* int and float; an exception of a step is the outcome
PlusElement(p, x) == IF p.err # "none" THEN p ELSE PyAdd(p.v, x)

RECURSIVE SumOfFirst(_, _)
SumOfFirst(S, k) ==
  IF k = 0 THEN Returns(I(0)) ELSE PlusElement(SumOfFirst(S, k - 1), S[k])

Sum(S) == SumOfFirst(S, Len(S))

OverLen(t, n) == IF t.err # "none" THEN t ELSE PyTrueDiv(t.v, n)

SumOverLen(S) == OverLen(Sum(S), Len(S))

\* |x| < |y|
DyLessMag(x, y) ==
  IF x.m = <<>> THEN y.m # <<>>
  ELSE IF y.m = <<>> THEN FALSE
  ELSE IF TopBit(x) # TopBit(y) THEN TopBit(x) < TopBit(y)
  ELSE LET lo == Min(x.e, y.e)
       IN  LessMag(x.m \o Zeros(x.e - lo), y.m \o Zeros(y.e - lo))

\* the sign of x - y: -1, 0 or 1
DyCmp(x, y) ==
  IF x = y THEN 0
  ELSE IF x.s # y.s THEN x.s
  ELSE IF DyLessMag(x, y) THEN -x.s
  ELSE x.s

\* the exact product x * n (0 <= n < Base), rounded once to binary64
MulRound(x, n) == RoundDy(Dy(x.s, MulMag(x.m, n), DigitBits * x.e))

\* Python's == and <= on numbers compare values, whatever the types
PyEq(a, b) ==
  /\ a.k # "None" /\ b.k # "None"
  /\ a.c = b.c /\ a.c # "nan"
  /\ a.s = b.s /\ a.m = b.m /\ a.e = b.e

PyLe(a, b) ==
  /\ a.c # "nan" /\ b.c # "nan"
  /\ IF a.c = "inf" THEN a.s = -1 \/ (b.c = "inf" /\ b.s = 1)
     ELSE IF b.c = "inf" THEN b.s = 1
     ELSE DyCmp(DyOf(a), DyOf(b)) <= 0

\* r * n for a float r and the int n = len(S)
PyMulInt(r, n) ==
  IF r.c # "fin" THEN (IF n = 0 THEN PyNaN ELSE r)
  ELSE PyFloat(MulRound(DyOf(r), n))

Ints(S) == \A j \in 1..Len(S) : S[j].k = "int"

\* |x| < 2^p and |x| >= 2^p
Below2Pow(x, p) == x.m = <<>> \/ TopBit(x) <= p

AtLeast2Pow(x, p) == x.m # <<>> /\ TopBit(x) > p

\* the numeral of |x| for an int x, and floor(x / n) for an int x and 0 < n < Base
IntDigits(x) == x.m \o Zeros(x.e)

FloorQuotient(s, d) ==
  IF s = 1 \/ d.r = 0 THEN PyInt(Dy(s, d.q, 0))
  ELSE PyInt(Dy(s, AddMag(d.q, <<1>>), 0))

FloorDiv(x, n) == FloorQuotient(x.s, DivMag(IntDigits(x), n))

Divides(n, x) == DivMag(IntDigits(x), n).r = 0

Elements(S) == {S[j] : j \in 1..Len(S)}

MinOf(S) == CHOOSE x \in Elements(S) : \A y \in Elements(S) : PyLe(x, y)

MaxOf(S) == CHOOSE x \in Elements(S) : \A y \in Elements(S) : PyLe(y, x)

Bijections(n) ==
  {q \in [1..n -> 1..n] : \A i, j \in 1..n : q[i] = q[j] => i = j}

Reorderings(S) == {[i \in 1..Len(S) |-> S[q[i]]] : q \in Bijections(Len(S))}

InCall == pc \in {"L3", "L4", "L5", "L6"}

C2_EmptyRaises ==
  numbers = <<>> =>
    /\ outcome.err # "none"
    /\ pc \in {"ret", "exit"} => outcome = Raises("ZeroDivisionError")

C2_Witness ==
  entry = "call" /\ pc = "ret" /\ numbers = <<>> /\ outcome.err = "ZeroDivisionError"

\* C3: every run of the script ends Crashed with the division-by-zero error of
\* the call, is never Completed, binds no result and prints no line.
C3_MainCrashes ==
  /\ [](entry = "main" => run # "Completed" /\ stdout = <<>> /\ result = None)
  /\ [](entry = "main" /\ pc = "exit" =>
          run = "Crashed" /\ outcome = Raises("ZeroDivisionError"))
  /\ ((entry = "main") ~> (run = "Crashed"))

C3_Witness ==
  entry = "main" /\ pc = "exit" /\ run = "Crashed" /\ raisedAt = 6

\* C4 as stated: for every sequence, every permutation of it gives the outcome
\* the sequence gives.
C4_OrderIndependent ==
  pc = "ret" => \A P \in Reorderings(numbers) : calculate_average(P) = outcome

\* C4 as amended: for every sequence of ints, every permutation of it gives
\* the outcome the sequence gives (the same value, the same failure).
C4_IntOrderIndependent ==
  (pc = "ret" /\ Ints(numbers)) =>
    \A P \in Reorderings(numbers) : calculate_average(P) = outcome

C4_Witness ==
  pc = "ret" /\ numbers = <<I(-3), I(1), I(2)>> /\ outcome.err = "none"

\* C5 as stated: for every non-empty sequence of ints the result r satisfies
\* r * len(S) == sum(S).
C5_TimesLenIsSum ==
  (pc = "ret" /\ numbers # <<>> /\ Ints(numbers) /\ outcome.err = "none") =>
    PyEq(PyMulInt(outcome.v, Len(numbers)), Sum(numbers).v)

\* C5 as amended: for every non-empty sequence of ints with |sum(S)| < 2^53
\* the call returns r with r * len(S) == sum(S) when len(S) divides sum(S),
\* and r # floor(sum(S) / len(S)) when it does not; [1, 2] gives 1.5.
C5_RealDivision ==
  (pc = "ret" /\ numbers # <<>> /\ Ints(numbers)
     /\ Below2Pow(Sum(numbers).v, DBL_MANT_DIG)) =>
    /\ outcome.err = "none"
    /\ IF Divides(Len(numbers), Sum(numbers).v)
       THEN PyEq(PyMulInt(outcome.v, Len(numbers)), Sum(numbers).v)
       ELSE ~PyEq(outcome.v, FloorDiv(Sum(numbers).v, Len(numbers)))
    /\ numbers = <<I(1), I(2)>> => outcome.v = F(1, 3, -1)

C5_Witness ==
  pc = "ret" /\ numbers = <<I(1), I(2)>> /\ outcome = Returns(F(1, 3, -1))

\* C6: the run starts Running; a run of the script leaves Running for
\* Completed (one line `Average: <value>` printed) or Crashed (nothing
\* printed); from Completed and Crashed no step is taken.
C6_RunStateMachine ==
  /\ run = "Running"
  /\ ((entry = "main") ~> (run \in {"Completed", "Crashed"}))
  /\ [][run' # run => run = "Running" /\ run' \in {"Completed", "Crashed"}]_vars
  /\ [][run = "Running"]_vars
  /\ [](run = "Completed" => stdout = <<Rendered(result)>> /\ result = outcome.v)
  /\ [](run = "Crashed" => stdout = <<>>)

C6_Witness ==
  entry = "main" /\ run = "Crashed" /\ stdout = <<>> /\ outcome.err # "none"

C8_ForwardPass ==
  /\ [](pc \in {"L4", "L6"} => Returns(total) = SumOfFirst(numbers, idx))
  /\ [](pc = "L5" =>
          /\ Returns(total) = SumOfFirst(numbers, idx - 1)
          /\ num = numbers[idx])
  /\ [](pc = "L6" => idx = Len(numbers))
  /\ [][idx' # idx => pc = "L4" /\ idx' = idx + 1 /\ idx' <= Len(numbers)]_vars
  /\ [][total' # total => pc \in {"L3", "L5"}]_vars

C8_Witness ==
  pc = "L6" /\ Len(numbers) = 3 /\ idx = 3 /\ Returns(total) = Sum(numbers)

\* C9: no step of the call changes the sequence or anything outside the
\* call: not the caller's locals, not standard output, not the run state.
C9_Pure ==
  [][InCall => /\ numbers' = numbers
               /\ stdout' = stdout
               /\ data' = data
               /\ result' = result
               /\ run' = run]_vars

C9_Witness ==
  entry = "call" /\ pc = "ret" /\ Len(numbers) = 2 /\ outcome.err = "none"

\* C10 as stated: for every non-empty sequence the value returned lies
\* between the smallest and the largest element, and is x when all elements
\* are x.
C10_WithinMinMax ==
  (pc = "ret" /\ numbers # <<>> /\ outcome.err = "none") =>
    /\ PyLe(MinOf(numbers), outcome.v)
    /\ PyLe(outcome.v, MaxOf(numbers))
    /\ MinOf(numbers) = MaxOf(numbers) => PyEq(outcome.v, MinOf(numbers))

\* C10 as amended: for every non-empty sequence of ints below 2^53 in
\* magnitude the value returned lies between the smallest and the largest
\* element, and is x when all elements are x.
C10_IntsWithinMinMax ==
  (pc = "ret" /\ numbers # <<>> /\ outcome.err = "none" /\ Ints(numbers)
     /\ \A j \in 1..Len(numbers) : Below2Pow(numbers[j], DBL_MANT_DIG)) =>
    /\ PyLe(MinOf(numbers), outcome.v)
    /\ PyLe(outcome.v, MaxOf(numbers))
    /\ MinOf(numbers) = MaxOf(numbers) => PyEq(outcome.v, MinOf(numbers))

C10_Witness ==
  pc = "ret" /\ numbers = <<I(5)>> /\ outcome.err = "none" /\ PyEq(outcome.v, I(5))

====
